---- MODULE Spec2Model ----
(***************************************************************************)
(* Hierarchy building and import aggregation of codezoom.                  *)
(*                                                                         *)
(* Identifiers (package, module and crate-module names) are Python         *)
(* strings.  They are modelled as sequences of one-character strings, the  *)
(* path separator "." included, so that str.startswith, str.split,         *)
(* ".".join and sorted() are computed on characters as Python does.        *)
(***************************************************************************)
EXTENDS Integers, Sequences, FiniteSets, TLC

VARIABLES
    pc,             \* position of the extractor run
    fs_packages,    \* packages found under the classes directories (*.class)
    edges,          \* (source_pkg, target_pkg) pairs reported by jdeps
    root_node_ids,  \* graph.root_node_ids
    hierarchy,      \* graph.hierarchy: identifier -> NodeData
    order,          \* processing order of the last bottom-up traversal
    raw_edges,      \* every (source, target) pair recorded on the nodes so far
    module_classes, \* module name and packages of each module, in dict order
    mod_idx,        \* position of the per-module loop of the multi-module build
    key_order,      \* iteration order of the keys of graph.hierarchy
    cycles,         \* graph.cycles: the groups returned by find_cycles
    tarjan,         \* locals of find_cycles when it returned
    rerun_cycles,   \* the groups returned by a second call on the same graph
    symbols,        \* NodeData.symbols of the nodes that hold a symbol dict
    is_exported,    \* NodeData.is_exported of every node
    batch_a,        \* symbols_by_package found by one symbol pass
    batch_b,        \* symbols_by_package found by another symbol pass
    applied,        \* the symbol passes merged so far, in order
    doc_uses,       \* (module, source module) of the use items of the rustdoc JSON
    src_uses        \* (module, target module) of the "use crate::" lines

\* the variables of the extractor run
builder_vars == <<fs_packages, edges, root_node_ids, order, raw_edges,
                  module_classes, mod_idx>>

\* the variables of the analysis that follows the extractors
analysis_vars == <<key_order, cycles, tarjan, rerun_cycles>>

\* the variables of the symbol passes
symbol_vars == <<symbols, is_exported, batch_a, batch_b, applied>>

\* the inputs of the Rust module hierarchy extractor
rust_vars == <<doc_uses, src_uses>>

\* the variables an extractor of the package hierarchy never touches
aux_vars == <<analysis_vars, symbol_vars, rust_vars>>

vars == <<pc, hierarchy, builder_vars, aux_vars>>

\* the analysis has not run
AnalysisIdle ==
    /\ key_order = <<>>
    /\ cycles = <<>>
    /\ tarjan = <<>>
    /\ rerun_cycles = <<>>

\* no symbol pass is part of the run
SymbolsIdle ==
    /\ symbols = <<>>
    /\ is_exported = <<>>
    /\ batch_a = <<>>
    /\ batch_b = <<>>
    /\ applied = <<>>

\* the project holds no crate
RustIdle ==
    /\ doc_uses = {}
    /\ src_uses = {}

AuxInit == AnalysisIdle /\ SymbolsIdle /\ RustIdle

---------------------------------------------------------------------------
(* Bounds of the model *)

MaxPkgs == 3
MaxEdges == 1
MaxJavap == 1
MaxIter == 40
MaxModules == 2
MaxModulePkgs == 2
MaxModuleEdges == 1

---------------------------------------------------------------------------
(* Identifiers *)

B   == <<"b">>
PF  == <<"p", ".", "f">>
PFB == <<"p", ".", "f", "b">>
PFX == <<"p", ".", "f", ".", "x">>
PG  == <<"p", ".", "g">>
Q   == <<"q">>

Universe == {B, PF, PFB, PFX, PG, Q}

ProjectName == <<"m">>

CharCode(c) ==
    CASE c = "." -> 46
      [] c = "_" -> 95
      [] c = "b" -> 98
      [] c = "f" -> 102
      [] c = "g" -> 103
      [] c = "m" -> 109
      [] c = "p" -> 112
      [] c = "q" -> 113
      [] c = "x" -> 120

Range(s) == {s[i] : i \in 1..Len(s)}

Min(S) == CHOOSE x \in S : \A y \in S : x <= y
Max(S) == CHOOSE x \in S : \A y \in S : y <= x

\* str.startswith
StartsWith(s, prefix) ==
    /\ Len(prefix) <= Len(s)
    /\ SubSeq(s, 1, Len(prefix)) = prefix

\* s < t for Python strings: by code point, a proper prefix first
StrLess(s, t) ==
    \E k \in 1..(Len(t)) :
        /\ \A j \in 1..(k - 1) : j <= Len(s) /\ s[j] = t[j]
        /\ Len(s) >= k - 1
        /\ \/ Len(s) = k - 1
           \/ Len(s) >= k /\ CharCode(s[k]) < CharCode(t[k])

RECURSIVE Sorted(_)
\* sorted(S) of a set of strings
Sorted(S) ==
    IF S = {} THEN <<>>
    ELSE LET m == CHOOSE x \in S : \A y \in S \ {x} : StrLess(x, y)
         IN  <<m>> \o Sorted(S \ {m})

Reverse(s) == [i \in 1..Len(s) |-> s[Len(s) + 1 - i]]

RECURSIVE Split(_)
\* s.split(".")
Split(s) ==
    IF \A i \in 1..Len(s) : s[i] # "." THEN <<s>>
    ELSE LET i == Min({j \in 1..Len(s) : s[j] = "."})
         IN  <<SubSeq(s, 1, i - 1)>> \o Split(SubSeq(s, i + 1, Len(s)))

RECURSIVE Join(_)
\* ".".join(parts)
Join(parts) ==
    IF parts = <<>> THEN <<>>
    ELSE IF Len(parts) = 1 THEN parts[1]
    ELSE parts[1] \o <<".">> \o Join(Tail(parts))

\* parts[:i]
Take(parts, i) == SubSeq(parts, 1, i)

---------------------------------------------------------------------------
(* Raw hierarchy of a builder: identifier -> children, imports_from,       *)
(* imports_to (sets), a defaultdict that creates an entry on first access  *)

EmptyRaw == [children |-> {}, imports_from |-> {}, imports_to |-> {}]

\* hierarchy[k]: the entry is created when missing
Ensure(h, k) == IF k \in DOMAIN h THEN h ELSE h @@ (k :> EmptyRaw)

AddChild(h, parent, child) ==
    LET h1 == Ensure(h, parent)
    IN  [h1 EXCEPT ![parent].children = @ \cup {child}]

\* the packages a build registers: those mentioned in edges and those on disk
AllPackages(es, pkgs) == {e[1] : e \in es} \cup {e[2] : e \in es} \cup pkgs

\* the leading segments shared by all identifiers (the zip loop)
CommonSegments(pkgs) ==
    LET parts_list == {Split(p) : p \in pkgs}
        shortest == Min({Len(ps) : ps \in parts_list})
        k == Max({n \in 0..shortest :
                    \A j \in 1..n : \A a, b \in parts_list : a[j] = b[j]})
        one == CHOOSE ps \in parts_list : TRUE
    IN  Take(one, k)

\* root_id = ".".join(common) if common else sorted(all_packages)[0]
RootId(pkgs) ==
    LET common == CommonSegments(pkgs)
    IN  IF common # <<>> THEN Join(common) ELSE Sorted(pkgs)[1]

RECURSIVE WalkPackageOffByOne(_, _, _, _, _)
\* the walk with the link from the root to its first level left out
WalkPackageOffByOne(h, parts, i, common, root_id) ==
    IF i >= Len(parts) THEN h
    ELSE LET parent == IF i > 0 THEN Join(Take(parts, i)) ELSE root_id
             child == Join(Take(parts, i + 1))
             h1 == IF parent # child /\ i > Len(common)
                   THEN AddChild(h, parent, child) ELSE h
         IN  WalkPackageOffByOne(Ensure(h1, child), parts, i + 1, common, root_id)

RECURSIVE WalkPackage(_, _, _, _, _)
\* for i in range(len(common), len(parts)): register parent -> child
WalkPackage(h, parts, i, common, root_id) ==
    IF i >= Len(parts) THEN h
    ELSE LET parent == IF i > 0 THEN Join(Take(parts, i)) ELSE root_id
             child == Join(Take(parts, i + 1))
             h1 == IF parent # child THEN AddChild(h, parent, child) ELSE h
         IN  WalkPackage(Ensure(h1, child), parts, i + 1, common, root_id)

RECURSIVE RegisterPackages(_, _, _, _)
\* for pkg in all_packages: walk from the root down to the package
RegisterPackages(h, pkgs, common, root_id) ==
    IF pkgs = <<>> THEN h
    ELSE RegisterPackages(
             WalkPackage(h, Split(Head(pkgs)), Len(common), common, root_id),
             Tail(pkgs), common, root_id)

RECURSIVE RecordEdges(_, _)
\* for src, tgt in edges: if src != tgt, record the edge on both ends
RecordEdges(h, es) ==
    IF es = {} THEN h
    ELSE LET e == CHOOSE x \in es : TRUE
             src == e[1]
             tgt == e[2]
             h1 == Ensure(h, src)
             h2 == [h1 EXCEPT ![src].imports_to = @ \cup {tgt}]
             h3 == Ensure(h2, tgt)
             h4 == [h3 EXCEPT ![tgt].imports_from = @ \cup {src}]
         IN  RecordEdges(IF src # tgt THEN h4 ELSE h, es \ {e})

\* the raw hierarchy before aggregation
RawHierarchy(es, pkgs) ==
    LET all == AllPackages(es, pkgs)
        common == CommonSegments(all)
        root_id == RootId(all)
        h0 == (root_id :> EmptyRaw)
        h1 == RegisterPackages(h0, Sorted(all), common, root_id)
    IN  RecordEdges(h1, es)

---------------------------------------------------------------------------
(* Bottom-up traversal and aggregation *)

\* iteration order of a Python set of strings: not specified; two orders
IterSet(S, rev) == IF rev THEN Reverse(Sorted(S)) ELSE Sorted(S)

RECURSIVE PreOrderLoop(_, _, _, _, _)
\* a traversal that appends a node when it is first popped, before its children
PreOrderLoop(kids, stack, visited, ord, fuel) ==
    IF stack = <<>> THEN
        [done |-> TRUE, order |-> ord, stack |-> stack, visited |-> visited]
    ELSE IF fuel = 0 THEN
        [done |-> FALSE, order |-> ord, stack |-> stack, visited |-> visited]
    ELSE
        LET node_id == stack[Len(stack)]
            children == IF node_id \in DOMAIN kids THEN kids[node_id] ELSE <<>>
            popped == SubSeq(stack, 1, Len(stack) - 1)
        IN  IF node_id \in visited THEN
                PreOrderLoop(kids, popped, visited, ord, fuel - 1)
            ELSE
                PreOrderLoop(kids, popped \o children, visited \cup {node_id},
                             Append(ord, node_id), fuel - 1)

RECURSIVE PostOrderLoop(_, _, _, _, _)
\* while stack: ... over kids[n], the children of n in iteration order.
\* fuel counts the iterations left; the result says whether the loop ended.
PostOrderLoop(kids, stack, visited, ord, fuel) ==
    IF stack = <<>> THEN
        [done |-> TRUE, order |-> ord, stack |-> stack, visited |-> visited]
    ELSE IF fuel = 0 THEN
        [done |-> FALSE, order |-> ord, stack |-> stack, visited |-> visited]
    ELSE
        LET node_id == stack[Len(stack)]
            children == IF node_id \in DOMAIN kids THEN kids[node_id] ELSE <<>>
            unvisited == SelectSeq(children, LAMBDA c : c \notin visited)
            popped == SubSeq(stack, 1, Len(stack) - 1)
        IN  IF unvisited # <<>> THEN
                PostOrderLoop(kids, stack \o unvisited, visited, ord, fuel - 1)
            ELSE IF node_id \notin visited THEN
                PostOrderLoop(kids, popped, visited \cup {node_id},
                              Append(ord, node_id), fuel - 1)
            ELSE
                PostOrderLoop(kids, popped, visited, ord, fuel - 1)

\* str.startswith(node_id), the containment test of the initial aggregation
Contained(imp, node_id) == StartsWith(imp, node_id)

\* one iteration of "for node_id in order" of the initial aggregation
AggregateNode(h, node_id) ==
    LET node == h[node_id]
    IN  IF node.children = {} THEN
            [node EXCEPT !.imports_to = {imp \in @ : ~Contained(imp, node_id)}]
        ELSE
            LET all_to == node.imports_to
                            \cup UNION {h[c].imports_to : c \in node.children}
                all_from == node.imports_from
                            \cup UNION {h[c].imports_from : c \in node.children}
            IN  [node EXCEPT
                    !.imports_to = {imp \in all_to : ~Contained(imp, node_id)},
                    !.imports_from = all_from]

RECURSIVE AggregateInOrder(_, _)
AggregateInOrder(h, ord) ==
    IF ord = <<>> THEN h
    ELSE AggregateInOrder(
             [h EXCEPT ![Head(ord)] = AggregateNode(h, Head(ord))], Tail(ord))

\* NodeData(children=sorted(..), imports_to=sorted(..), imports_from=sorted(..))
NodeData(raw) ==
    [children |-> Sorted(raw.children),
     imports_to |-> Sorted(raw.imports_to),
     imports_from |-> Sorted(raw.imports_from)]

\* a write that starts from an empty dict instead of graph.hierarchy
WriteHierarchyFresh(g, h) ==
    [k \in DOMAIN h |-> NodeData(h[k])]

\* graph.hierarchy[node_id] = NodeData(...) for every entry of the raw hierarchy
WriteHierarchy(g, h) ==
    [k \in DOMAIN g \cup DOMAIN h |-> IF k \in DOMAIN h THEN NodeData(h[k]) ELSE g[k]]

---------------------------------------------------------------------------
(* JavaPackageHierarchyExtractor on a single-module project *)

EmptyGraph == [k \in {} |-> NodeData(EmptyRaw)]

SubsetsUpTo(S, n) == {T \in SUBSET S : Cardinality(T) <= n}

\* children of the entries of a raw hierarchy, in set iteration order
RawKids(h, rev) == [k \in DOMAIN h |-> IterSet(h[k].children, rev)]

\* children lists of graph.hierarchy
GraphKids(g) == [k \in DOMAIN g |-> g[k].children]

Init ==
    /\ pc = "start"
    /\ fs_packages \in SubsetsUpTo(Universe, MaxPkgs)
    /\ edges \in SubsetsUpTo(fs_packages \X fs_packages, MaxEdges)
    /\ root_node_ids = <<ProjectName>>
    /\ hierarchy = EmptyGraph
    /\ order = <<>>
    /\ raw_edges = {}
    /\ module_classes = <<[name |-> <<>>, pkgs |-> fs_packages]>>
    /\ mod_idx = 0
    /\ AuxInit

\* _build_hierarchical_data(edges, classes_dirs, graph)
BuildHierarchicalData ==
    /\ pc = "start"
    /\ LET all == AllPackages(edges, fs_packages)
       IN  IF all = {} THEN
               /\ pc' = "built"
               /\ UNCHANGED <<root_node_ids, hierarchy, order, raw_edges>>
           ELSE
               \E rev \in BOOLEAN :
                   LET root_id == RootId(all)
                       raw == RawHierarchy(edges, fs_packages)
                       walk == PostOrderLoop(RawKids(raw, rev), <<root_id>>, {},
                                             <<>>, MaxIter)
                   IN  /\ root_node_ids' = <<root_id>>
                       /\ order' = walk.order
                       /\ raw_edges' = {e \in edges : e[1] # e[2]}
                       /\ IF walk.done THEN
                              /\ hierarchy' = WriteHierarchy(hierarchy,
                                                  AggregateInOrder(raw, walk.order))
                              /\ pc' = "built"
                          ELSE
                              \* the while loop has not ended after MaxIter rounds
                              /\ hierarchy' = hierarchy
                              /\ pc' = "hung"
    /\ UNCHANGED aux_vars
    /\ UNCHANGED <<fs_packages, edges, module_classes, mod_idx>>

\* cross-package edges of class_deps: the target is a key of the hierarchy
NewEdges(refs, g) == {e \in refs : e[2] \in DOMAIN g /\ e[2] # e[1]}

RECURSIVE MergeEdges(_, _)
\* for src_pkg, tgt_pkg in new_edges: record the edge on both nodes
MergeEdges(g, es) ==
    IF es = {} THEN g
    ELSE LET e == CHOOSE x \in es : TRUE
             src_pkg == e[1]
             tgt_pkg == e[2]
             g1 == IF tgt_pkg \notin Range(g[src_pkg].imports_to)
                   THEN [g EXCEPT ![src_pkg].imports_to =
                            Sorted(Range(@) \cup {tgt_pkg})]
                   ELSE g
             g2 == IF src_pkg \notin Range(g1[tgt_pkg].imports_from)
                   THEN [g1 EXCEPT ![tgt_pkg].imports_from =
                            Sorted(Range(@) \cup {src_pkg})]
                   ELSE g1
         IN  MergeEdges(IF src_pkg \in DOMAIN g /\ tgt_pkg \in DOMAIN g
                        THEN g2 ELSE g, es \ {e})

\* added: the new edges whose target was not yet in the source's imports_to
Added(g, es) ==
    Cardinality({e \in es : /\ e[1] \in DOMAIN g
                            /\ e[2] \in DOMAIN g
                            /\ e[2] \notin Range(g[e[1]].imports_to)})

\* imp.startswith(node_id), the containment test of the javap re-aggregation
ContainedMerge(imp, node_id) == StartsWith(imp, node_id)

\* one iteration of "for node_id in order" of the javap re-aggregation
ReaggregateNode(g, node_id) ==
    LET node == g[node_id]
    IN  IF node.children # <<>> THEN
            LET kids == {c \in Range(node.children) : c \in DOMAIN g}
                all_to == Range(node.imports_to)
                            \cup UNION {Range(g[c].imports_to) : c \in kids}
                all_from == Range(node.imports_from)
                            \cup UNION {Range(g[c].imports_from) : c \in kids}
            IN  [node EXCEPT
                    !.imports_to =
                        Sorted({imp \in all_to : ~ContainedMerge(imp, node_id)}),
                    !.imports_from = Sorted(all_from)]
        ELSE node

RECURSIVE ReaggregateInOrder(_, _)
ReaggregateInOrder(g, ord) ==
    IF ord = <<>> THEN g
    ELSE LET node_id == Head(ord)
         IN  ReaggregateInOrder(
                 IF node_id \in DOMAIN g
                 THEN [g EXCEPT ![node_id] = ReaggregateNode(g, node_id)]
                 ELSE g,
                 Tail(ord))

\* _merge_javap_imports(class_deps, graph); refs are the (package, target)
\* pairs of class_deps
MergeJavapImports ==
    /\ pc = "built"
    /\ \E refs \in SubsetsUpTo({e \in fs_packages \X fs_packages : e[1] # e[2]},
                               MaxJavap) :
         LET new_edges == NewEdges(refs, hierarchy)
             added == Added(hierarchy, new_edges)
             merged == MergeEdges(hierarchy, new_edges)
             walk == PostOrderLoop(GraphKids(merged), root_node_ids, {}, <<>>,
                                   MaxIter)
         IN  /\ raw_edges' = raw_edges \cup
                    {e \in new_edges : e[1] \in DOMAIN hierarchy}
             /\ IF new_edges = {} \/ added = 0 \/ root_node_ids = <<>> THEN
                    /\ hierarchy' = merged
                    /\ order' = order
                    /\ pc' = "merged"
                ELSE IF walk.done THEN
                    /\ hierarchy' = ReaggregateInOrder(merged, walk.order)
                    /\ order' = walk.order
                    /\ pc' = "merged"
                ELSE
                    /\ hierarchy' = merged
                    /\ order' = walk.order
                    /\ pc' = "hung"
    /\ UNCHANGED aux_vars
    /\ UNCHANGED <<fs_packages, edges, root_node_ids, module_classes, mod_idx>>

Next ==
    \/ BuildHierarchicalData
    \/ MergeJavapImports

Spec == Init /\ [][Next]_vars

---------------------------------------------------------------------------
(* JavaPackageHierarchyExtractor on a multi-module project *)

ModuleNames == {<<"m">>, <<"q">>}
ModuleUniverse == {PF, PG, Q}

\* dict.get on a missing key
None == <<>>

ModuleCount(mc) == Len(mc)

\* module_names = sorted(module_classes.keys())
SortedModuleNames(mc) == Sorted({mc[i].name : i \in 1..Len(mc)})

\* the packages found under the classes directories of one module
ModulePackages(mc, module_name) ==
    UNION {mc[i].pkgs : i \in {j \in 1..Len(mc) : mc[j].name = module_name}}

\* pkg_to_module.get(pkg): the last module, in dict order, that holds the package
PkgToModule(mc, pkg) ==
    LET owners == {i \in 1..Len(mc) : pkg \in mc[i].pkgs}
    IN  IF owners = {} THEN None ELSE mc[Max(owners)].name

\* the raw hierarchy of one module: packages, then its own edges, then the
\* incoming edges from other modules; only existing entries take an edge
ModuleRawHierarchy(mc, all_edges, module_name) ==
    LET module_packages == ModulePackages(mc, module_name)
        module_edges == {e \in all_edges : PkgToModule(mc, e[1]) = module_name}
        incoming == {e \in all_edges : /\ PkgToModule(mc, e[2]) = module_name
                                       /\ PkgToModule(mc, e[1]) # module_name}
        common == CommonSegments(module_packages)
        module_root_pkg == RootId(module_packages)
        h1 == RegisterPackages((module_root_pkg :> EmptyRaw),
                               Sorted(module_packages), common, module_root_pkg)
    IN  [k \in DOMAIN h1 |->
            [h1[k] EXCEPT
                !.imports_to = @ \cup
                    {e[2] : e \in {x \in module_edges : x[1] = k /\ x[1] # x[2]}},
                !.imports_from = @ \cup
                    {e[1] : e \in {x \in module_edges : x[2] = k /\ x[1] # x[2]}}
                    \cup {e[1] : e \in {x \in incoming : x[2] = k}}]]

\* graph.hierarchy[k] = node
PutNode(g, k, node) ==
    [x \in DOMAIN g \cup {k} |-> IF x = k THEN node ELSE g[x]]

\* NodeData(children=[module_root_pkg])
ModuleNode(module_root_pkg) ==
    [children |-> <<module_root_pkg>>, imports_to |-> <<>>, imports_from |-> <<>>]

RECURSIVE CollectLoop(_, _, _, _, _)
\* _collect_descendant_packages: the stack loop, with the iterations left
CollectLoop(g, stack, result, module_set, fuel) ==
    IF stack = <<>> THEN [done |-> TRUE, result |-> result]
    ELSE IF fuel = 0 THEN [done |-> FALSE, result |-> result]
    ELSE LET node_id == stack[Len(stack)]
             rest == SubSeq(stack, 1, Len(stack) - 1)
         IN  IF node_id \in module_set THEN
                 CollectLoop(g, rest, result, module_set, fuel - 1)
             ELSE
                 CollectLoop(g,
                     IF node_id \in DOMAIN g THEN rest \o g[node_id].children
                     ELSE rest,
                     result \cup {node_id}, module_set, fuel - 1)

CollectDescendantPackages(module_name, g, module_set) ==
    CollectLoop(g, g[module_name].children, {}, module_set, MaxIter)

\* whether the far end of an import belongs to another module of the project
OtherModule(mc, imp, module_name, module_set) ==
    LET m == PkgToModule(mc, imp)
    IN  m # None /\ m # module_name /\ m \in module_set

\* the module -> module edges derived from the package-level edges
ModuleLevelNode(mc, g, module_name, module_set) ==
    LET mod_pkgs == {k \in CollectDescendantPackages(module_name, g, module_set).result :
                        k \in DOMAIN g}
        target_modules ==
            {PkgToModule(mc, imp) :
                imp \in {i \in UNION {Range(g[k].imports_to) : k \in mod_pkgs} :
                            OtherModule(mc, i, module_name, module_set)}}
        source_modules ==
            {PkgToModule(mc, imp) :
                imp \in {i \in UNION {Range(g[k].imports_from) : k \in mod_pkgs} :
                            OtherModule(mc, i, module_name, module_set)}}
    IN  [g[module_name] EXCEPT !.imports_to = Sorted(target_modules),
                               !.imports_from = Sorted(source_modules)]

\* for module_name in module_names: set the module node's imports
ModuleLevelImports(mc, g) ==
    LET module_set == {mc[i].name : i \in 1..Len(mc)}
    IN  [k \in DOMAIN g |->
            IF k \in module_set THEN ModuleLevelNode(mc, g, k, module_set)
            ELSE g[k]]

\* whether every _collect_descendant_packages loop ends
CollectsEnd(mc, g) ==
    LET module_set == {mc[i].name : i \in 1..Len(mc)}
    IN  \A k \in module_set \cap DOMAIN g :
            CollectDescendantPackages(k, g, module_set).done

ModuleRecords(names, pkgsets) ==
    {mc \in UNION {[1..n -> [name : names, pkgs : pkgsets]] : n \in 1..MaxModules} :
        \A i, j \in 1..Len(mc) : i # j => mc[i].name # mc[j].name}

InitMulti ==
    /\ pc = "start"
    /\ module_classes \in ModuleRecords(ModuleNames,
                              SubsetsUpTo(ModuleUniverse, MaxModulePkgs))
    /\ fs_packages = UNION {module_classes[i].pkgs : i \in 1..Len(module_classes)}
    /\ edges \in SubsetsUpTo(fs_packages \X fs_packages, MaxModuleEdges)
    /\ root_node_ids = <<ProjectName>>
    /\ hierarchy = EmptyGraph
    /\ order = <<>>
    /\ raw_edges = {}
    /\ mod_idx = 0
    /\ AuxInit

\* _build_multi_module_hierarchy, up to the per-module loop
StartMultiModule ==
    /\ pc = "start"
    /\ pc' = "modules"
    /\ root_node_ids' = SortedModuleNames(module_classes)
    /\ mod_idx' = 1
    /\ UNCHANGED aux_vars
    /\ UNCHANGED <<fs_packages, edges, hierarchy, order, raw_edges, module_classes>>

\* node.symbols of a node written as NodeData(...) without symbols
WithoutSymbols(syms, k) == [x \in DOMAIN syms \ {k} |-> syms[x]]

\* is_exported of the nodes written as NodeData(...) without is_exported
WithDefaultExported(exp, written) ==
    [x \in DOMAIN exp |-> IF x \in written THEN TRUE ELSE exp[x]]

\* one round of "for module_name in module_names"
BuildModule ==
    /\ pc = "modules"
    /\ mod_idx <= Len(SortedModuleNames(module_classes))
    /\ LET module_name == SortedModuleNames(module_classes)[mod_idx]
           module_packages == ModulePackages(module_classes, module_name)
       IN  IF module_packages = {} THEN
               /\ hierarchy' = PutNode(hierarchy, module_name, NodeData(EmptyRaw))
               /\ symbols' = WithoutSymbols(symbols, module_name)
               /\ is_exported' = WithDefaultExported(is_exported, {module_name})
               /\ mod_idx' = mod_idx + 1
               /\ UNCHANGED <<pc, order, raw_edges>>
           ELSE
               \E rev \in BOOLEAN :
                   LET module_root_pkg == RootId(module_packages)
                       raw == ModuleRawHierarchy(module_classes, edges, module_name)
                       walk == PostOrderLoop(RawKids(raw, rev), <<module_root_pkg>>,
                                             {}, <<>>, MaxIter)
                   IN  /\ order' = walk.order
                       /\ raw_edges' = raw_edges \cup
                              UNION {{<<k, t>> : t \in raw[k].imports_to}
                                       \cup {<<f, k>> : f \in raw[k].imports_from} :
                                     k \in DOMAIN raw}
                       /\ IF walk.done THEN
                              /\ hierarchy' =
                                    PutNode(WriteHierarchy(hierarchy,
                                                AggregateInOrder(raw, walk.order)),
                                            module_name, ModuleNode(module_root_pkg))
                              /\ symbols' = WithoutSymbols(symbols, module_name)
                              /\ is_exported' =
                                    WithDefaultExported(is_exported,
                                        DOMAIN raw \cup {module_name})
                              /\ mod_idx' = mod_idx + 1
                              /\ pc' = pc
                          ELSE
                              /\ UNCHANGED <<hierarchy, mod_idx, symbols, is_exported>>
                              /\ pc' = "hung"
    /\ UNCHANGED <<analysis_vars, batch_a, batch_b, applied, rust_vars>>
    /\ UNCHANGED <<fs_packages, edges, root_node_ids, module_classes>>

\* the module-level imports computed after the per-module loop
ComputeModuleImports ==
    /\ pc = "modules"
    /\ mod_idx > Len(SortedModuleNames(module_classes))
    /\ IF CollectsEnd(module_classes, hierarchy) THEN
           /\ hierarchy' = ModuleLevelImports(module_classes, hierarchy)
           /\ pc' = "built"
       ELSE
           /\ hierarchy' = hierarchy
           /\ pc' = "hung"
    /\ UNCHANGED aux_vars
    /\ UNCHANGED <<fs_packages, edges, root_node_ids, order, raw_edges,
                   module_classes, mod_idx>>

\* _recompute_module_imports(module_classes, graph)
RecomputeModuleImports ==
    /\ pc = "merged"
    /\ IF CollectsEnd(module_classes, hierarchy) THEN
           /\ hierarchy' = ModuleLevelImports(module_classes, hierarchy)
           /\ pc' = "done"
       ELSE
           /\ hierarchy' = hierarchy
           /\ pc' = "hung"
    /\ UNCHANGED aux_vars
    /\ UNCHANGED <<fs_packages, edges, root_node_ids, order, raw_edges,
                   module_classes, mod_idx>>

NextMulti ==
    \/ StartMultiModule
    \/ BuildModule
    \/ ComputeModuleImports
    \/ MergeJavapImports
    \/ RecomputeModuleImports

SpecMulti == InitMulti /\ [][NextMulti]_vars

\* a package jdeps names as the source of an edge although no classes
\* directory declares it
Undeclared == B

\* a multi-module project whose jdeps edges may start at an undeclared package
InitDangling ==
    /\ pc = "start"
    /\ module_classes \in ModuleRecords(ModuleNames,
                              SubsetsUpTo(ModuleUniverse, MaxModulePkgs))
    /\ fs_packages = UNION {module_classes[i].pkgs : i \in 1..Len(module_classes)}
    /\ edges \in SubsetsUpTo((fs_packages \cup {Undeclared}) \X fs_packages,
                             MaxModuleEdges)
    /\ root_node_ids = <<ProjectName>>
    /\ hierarchy = EmptyGraph
    /\ order = <<>>
    /\ raw_edges = {}
    /\ mod_idx = 0
    /\ AuxInit

SpecDangling == InitDangling /\ [][NextMulti]_vars

---------------------------------------------------------------------------
(* find_cycles: Tarjan's algorithm on the imports_to graph *)

MaxCycleEdges == 4

\* the node ids the analysed graphs are drawn from
CycleIds == {B, PF, PG, Q}

\* d[k] = v on a dict
PutKey(d, k, v) == [x \in DOMAIN d \cup {k} |-> IF x = k THEN v ELSE d[x]]

\* a lowlink that is never lowered
KeepFirst(a, b) == a

\* min(a, b)
Min2(a, b) == IF a <= b THEN a ELSE b

\* the locals of find_cycles before the first visit
TarjanStart ==
    [index |-> <<>>, lowlink |-> <<>>, on_stack |-> {}, stack |-> <<>>,
     sccs |-> <<>>, counter |-> 0, pushed |-> {}]

\* the pop loop without the size test: every component is kept
PopSccKeepAll(st, v) ==
    LET pos == CHOOSE i \in 1..Len(st.stack) :
                   st.stack[i] = v /\ \A j \in (i + 1)..Len(st.stack) : st.stack[j] # v
        scc == Reverse(SubSeq(st.stack, pos, Len(st.stack)))
    IN  [st EXCEPT !.stack = SubSeq(st.stack, 1, pos - 1),
                   !.on_stack = @ \ Range(scc),
                   !.sccs = Append(@, scc)]

\* the while True loop of _visit: pop down to v, keep the group if it has
\* two members or more
PopScc(st, v) ==
    LET pos == CHOOSE i \in 1..Len(st.stack) :
                   st.stack[i] = v /\ \A j \in (i + 1)..Len(st.stack) : st.stack[j] # v
        scc == Reverse(SubSeq(st.stack, pos, Len(st.stack)))
    IN  [st EXCEPT !.stack = SubSeq(st.stack, 1, pos - 1),
                   !.on_stack = @ \ Range(scc),
                   !.sccs = IF Len(scc) >= 2 THEN Append(@, scc) ELSE @]

RECURSIVE Visit(_, _, _)
RECURSIVE VisitEdges(_, _, _, _)
RECURSIVE VisitEdgesNoSkip(_, _, _, _)

\* the edge loop without the "w not in hierarchy" test: an unknown target is
\* visited as a node without imports
VisitEdgesNoSkip(h, st, v, i) ==
    IF i > Len(h[v].imports_to) THEN st
    ELSE LET w == h[v].imports_to[i]
             known == IF w \in DOMAIN h THEN h
                      ELSE [x \in DOMAIN h \cup {w} |->
                               IF x = w THEN [children |-> <<>>, imports_to |-> <<>>,
                                              imports_from |-> <<>>]
                               ELSE h[x]]
         IN  IF w \notin DOMAIN st.index THEN
                 LET s == Visit(known, st, w)
                 IN  VisitEdgesNoSkip(h,
                         [s EXCEPT !.lowlink[v] = Min2(@, s.lowlink[w])], v, i + 1)
             ELSE IF w \in st.on_stack THEN
                 VisitEdgesNoSkip(h,
                     [st EXCEPT !.lowlink[v] = Min2(@, st.index[w])], v, i + 1)
             ELSE VisitEdgesNoSkip(h, st, v, i + 1)

\* for w in hierarchy[v].imports_to, from position i on
VisitEdges(h, st, v, i) ==
    IF i > Len(h[v].imports_to) THEN st
    ELSE LET w == h[v].imports_to[i]
         IN  IF w \notin DOMAIN h THEN VisitEdges(h, st, v, i + 1)
             ELSE IF w \notin DOMAIN st.index THEN
                 LET s == Visit(h, st, w)
                 IN  VisitEdges(h,
                         [s EXCEPT !.lowlink[v] = Min2(@, s.lowlink[w])], v, i + 1)
             ELSE IF w \in st.on_stack THEN
                 VisitEdges(h,
                     [st EXCEPT !.lowlink[v] = Min2(@, st.index[w])], v, i + 1)
             ELSE VisitEdges(h, st, v, i + 1)

\* _visit(v)
Visit(h, st, v) ==
    LET entered == [st EXCEPT !.index = PutKey(@, v, st.counter),
                              !.lowlink = PutKey(@, v, st.counter),
                              !.counter = @ + 1,
                              !.stack = Append(@, v),
                              !.on_stack = @ \cup {v},
                              !.pushed = @ \cup {v}]
        after == VisitEdges(h, entered, v, 1)
    IN  IF after.lowlink[v] = after.index[v] THEN PopScc(after, v) ELSE after

\* an iteration whose order is not fixed by the dict: it differs between calls
IterKeysUnordered(ks) == IF pc = "analysed" THEN Reverse(ks) ELSE ks

\* the order in which "for v in hierarchy" yields the keys
IterKeys(ks) == ks

RECURSIVE VisitAll(_, _, _, _)
\* for v in hierarchy: if v not in index: _visit(v)
VisitAll(h, st, ks, i) ==
    IF i > Len(ks) THEN st
    ELSE IF ks[i] \in DOMAIN st.index THEN VisitAll(h, st, ks, i + 1)
    ELSE VisitAll(h, Visit(h, st, ks[i]), ks, i + 1)

\* find_cycles(hierarchy): the locals when it returns; .sccs is the result
FindCyclesRun(h, ks) == VisitAll(h, TarjanStart, IterKeys(ks), 1)

\* a hierarchy holding the given imports_to edges, lists in list order rev
GraphOf(K, E, rev) ==
    [k \in K |->
        [children |-> <<>>,
         imports_to |-> IterSet({e[2] : e \in {x \in E : x[1] = k}}, rev),
         imports_from |-> IterSet({e[1] : e \in {x \in E : x[2] = k}}, rev)]]

\* a graph left by the extractors, about to be analysed
InitCycles ==
    /\ pc = "extracted"
    /\ \E K \in SUBSET CycleIds :
       \E E \in SubsetsUpTo(K \X CycleIds, MaxCycleEdges) :
       \E rev \in BOOLEAN :
           /\ hierarchy = GraphOf(K, E, rev)
           /\ \E back \in BOOLEAN : key_order = IterSet(K, back)
    /\ fs_packages = {}
    /\ edges = {}
    /\ root_node_ids = <<ProjectName>>
    /\ order = <<>>
    /\ raw_edges = {}
    /\ module_classes = <<>>
    /\ mod_idx = 0
    /\ cycles = <<>>
    /\ tarjan = TarjanStart
    /\ rerun_cycles = <<>>
    /\ SymbolsIdle
    /\ RustIdle

\* graph.cycles = find_cycles(graph.hierarchy)
FindCycles ==
    /\ pc = "extracted"
    /\ tarjan' = FindCyclesRun(hierarchy, key_order)
    /\ cycles' = tarjan'.sccs
    /\ pc' = "analysed"
    /\ UNCHANGED <<hierarchy, builder_vars, key_order, rerun_cycles, symbol_vars,
                   rust_vars>>

\* a second call of find_cycles on the unchanged graph
FindCyclesAgain ==
    /\ pc = "analysed"
    /\ rerun_cycles' = FindCyclesRun(hierarchy, key_order).sccs
    /\ pc' = "reanalysed"
    /\ UNCHANGED <<hierarchy, builder_vars, key_order, cycles, tarjan, symbol_vars,
                   rust_vars>>

NextCycles == FindCycles \/ FindCyclesAgain

SpecCycles == InitCycles /\ [][NextCycles]_vars

---------------------------------------------------------------------------
(* Symbol passes: merging symbols_by_package into graph.hierarchy *)

MaxLine == 2

\* SymbolData.line = None
NoLine == 0

\* the package name _resolve_class_identity gives a class of the default package
DefaultPackage == <<>>

\* a method as a symbol pass may report it
MethodSyms ==
    [kind : {"method"}, line : {NoLine, 1}, calls : {<<>>, <<"f">>},
     inherits : {<<>>}, children : {<<>>}, visibility : {"public"}]

\* a class as a symbol pass may report it: with or without its method m
ClassSyms ==
    [kind : {"class"}, line : {NoLine} \cup 1..MaxLine, calls : {<<>>},
     inherits : {<<>>, <<"T">>},
     children : {<<>>} \cup {("m" :> ms) : ms \in MethodSyms},
     visibility : {"public", "private"}]

\* a class without line, parents or methods
PlainClass ==
    [kind |-> "class", line |-> NoLine, calls |-> <<>>, inherits |-> <<>>,
     children |-> <<>>, visibility |-> "public"]

\* symbols_by_package of a pass: class A of package p.f, or nothing
ClassBatches ==
    {<<>>} \cup {(PF :> ("A" :> c)) : c \in ClassSyms}

\* symbols_by_package of the bytecode pass, which may also find a class of
\* the default package
BatchesA ==
    ClassBatches
    \cup {b @@ (DefaultPackage :> ("C" :> PlainClass)) : b \in ClassBatches}

\* symbols_by_package of a pass that may also find class B of p.f
BatchesB ==
    ClassBatches
    \cup {(PF :> (("A" :> c) @@ ("B" :> PlainClass))) : c \in ClassSyms}

\* calls_data of the bytecode pass: nothing, or the calls of method m of class A
CallsData == {<<>>, (PF :> ("A" :> ("m" :> <<"g">>)))}

\* dict.update
DictUpdate(old, new) ==
    [k \in DOMAIN old \cup DOMAIN new |-> IF k \in DOMAIN new THEN new[k] ELSE old[k]]

\* node.symbols after "node.symbols.update(symbols)" on every package of a batch
UpdateSymbols(syms, batch) ==
    [k \in DOMAIN syms \cup DOMAIN batch |->
        IF k \in DOMAIN batch
        THEN DictUpdate(IF k \in DOMAIN syms THEN syms[k] ELSE <<>>, batch[k])
        ELSE syms[k]]

\* graph.hierarchy after the pass: a package without a node gets NodeData()
WithBatchNodes(g, batch) ==
    [k \in DOMAIN g \cup DOMAIN batch |->
        IF k \in DOMAIN g THEN g[k] ELSE NodeData(EmptyRaw)]

\* is_exported after the pass: True on the nodes the pass creates
WithBatchExported(exp, batch) ==
    [k \in DOMAIN exp \cup DOMAIN batch |-> IF k \in DOMAIN exp THEN exp[k] ELSE TRUE]

\* _merge_method_calls: the calls of the methods the node already holds
MergeMethodCalls(g, syms, calls_data) ==
    [k \in DOMAIN syms |->
        IF k \notin DOMAIN calls_data \/ k \notin DOMAIN g \/ syms[k] = <<>>
        THEN syms[k]
        ELSE [c \in DOMAIN syms[k] |->
                 IF c \notin DOMAIN calls_data[k] \/ syms[k][c].children = <<>>
                 THEN syms[k][c]
                 ELSE [syms[k][c] EXCEPT !.children =
                          [m \in DOMAIN @ |->
                              IF m \in DOMAIN calls_data[k][c]
                              THEN [@[m] EXCEPT !.calls = calls_data[k][c][m]]
                              ELSE @[m]]]]]

\* the hierarchy left by the hierarchy extractor, before the symbol passes
InitSymbols ==
    /\ pc = "symbols"
    /\ hierarchy = WriteHierarchy(EmptyGraph, RawHierarchy({}, {PF, PG}))
    /\ symbols = <<>>
    /\ \E e \in BOOLEAN :
           is_exported = [k \in DOMAIN hierarchy |-> IF k = PF THEN e ELSE TRUE]
    /\ \E syms \in BatchesA : \E calls \in CallsData :
           batch_a = [symbols_by_package |-> syms, method_calls |-> calls]
    /\ \E syms \in BatchesB :
           batch_b = [symbols_by_package |-> syms, method_calls |-> <<>>]
    /\ applied = <<>>
    /\ fs_packages = {PF, PG}
    /\ edges = {}
    /\ root_node_ids = <<<<"p">>>>
    /\ order = <<>>
    /\ raw_edges = {}
    /\ module_classes = <<>>
    /\ mod_idx = 0
    /\ AnalysisIdle
    /\ RustIdle

\* one symbol pass: merge its symbols, then its method calls
MergeSymbolPass(batch) ==
    /\ hierarchy' = WithBatchNodes(hierarchy, batch.symbols_by_package)
    /\ is_exported' = WithBatchExported(is_exported, batch.symbols_by_package)
    /\ symbols' = MergeMethodCalls(hierarchy',
                      UpdateSymbols(symbols, batch.symbols_by_package),
                      batch.method_calls)

\* JavaAstSymbolsExtractor.extract from the merge on
SymbolsPassA ==
    /\ pc = "symbols"
    /\ "a" \notin Range(applied)
    /\ MergeSymbolPass(batch_a)
    /\ applied' = Append(applied, "a")
    /\ UNCHANGED <<pc, builder_vars, analysis_vars, batch_a, batch_b, rust_vars>>

\* the merge of another symbol pass (_extract_crate_symbols, source symbols)
SymbolsPassB ==
    /\ pc = "symbols"
    /\ "b" \notin Range(applied)
    /\ MergeSymbolPass(batch_b)
    /\ applied' = Append(applied, "b")
    /\ UNCHANGED <<pc, builder_vars, analysis_vars, batch_a, batch_b, rust_vars>>

NextSymbols == SymbolsPassA \/ SymbolsPassB

SpecSymbols == InitSymbols /\ [][NextSymbols]_vars

---------------------------------------------------------------------------
(* A hierarchy pass over nodes that hold symbols *)

\* the nodes an earlier extractor of the run may have left with symbols
EarlierNodes == {Q, PG}

\* a multi-module build on a graph in which an earlier extractor left a node
\* with symbols
InitRewrite ==
    /\ pc = "start"
    /\ module_classes \in ModuleRecords(ModuleNames,
                              SubsetsUpTo(ModuleUniverse, MaxModulePkgs))
    /\ fs_packages = UNION {module_classes[i].pkgs : i \in 1..Len(module_classes)}
    /\ edges \in SubsetsUpTo(fs_packages \X fs_packages, MaxModuleEdges)
    /\ root_node_ids = <<ProjectName>>
    /\ \E k \in EarlierNodes : \E e \in BOOLEAN :
           /\ hierarchy = (k :> NodeData(EmptyRaw))
           /\ symbols = (k :> ("A" :> PlainClass))
           /\ is_exported = (k :> e)
    /\ batch_a = <<>>
    /\ batch_b = <<>>
    /\ applied = <<>>
    /\ order = <<>>
    /\ raw_edges = {}
    /\ mod_idx = 0
    /\ AnalysisIdle
    /\ RustIdle

SpecRewrite == InitRewrite /\ [][NextMulti]_vars

---------------------------------------------------------------------------
(* pipeline.run on a multi-module Java project *)

\* what the bytecode symbol pass of the run may find
RunBatches ==
    {<<>>, (PF :> ("A" :> PlainClass)), (DefaultPackage :> ("C" :> PlainClass))}

InitRun ==
    /\ pc = "start"
    /\ module_classes \in ModuleRecords(ModuleNames,
                              SubsetsUpTo(ModuleUniverse, MaxModulePkgs))
    /\ fs_packages = UNION {module_classes[i].pkgs : i \in 1..Len(module_classes)}
    /\ edges \in SubsetsUpTo(fs_packages \X fs_packages, MaxModuleEdges)
    /\ root_node_ids = <<ProjectName>>
    /\ hierarchy = EmptyGraph
    /\ order = <<>>
    /\ raw_edges = {}
    /\ mod_idx = 0
    /\ AnalysisIdle
    /\ RustIdle
    /\ symbols = <<>>
    /\ is_exported = <<>>
    /\ \E syms \in RunBatches :
           batch_a = [symbols_by_package |-> syms, method_calls |-> <<>>]
    /\ batch_b = [symbols_by_package |-> <<>>, method_calls |-> <<>>]
    /\ applied = <<>>

\* "for ext in extractors": the hierarchy extractor has returned, the symbol
\* extractor is next
NextExtractor ==
    /\ pc = "done"
    /\ pc' = "symbols"
    /\ UNCHANGED <<hierarchy, builder_vars, aux_vars>>

\* the extractor loop ends; find_cycles will iterate the keys in dict order
ExtractorsEnd ==
    /\ pc = "symbols"
    /\ applied = <<"a">>
    /\ pc' = "extracted"
    /\ \E back \in BOOLEAN : key_order' = IterSet(DOMAIN hierarchy, back)
    /\ tarjan' = TarjanStart
    /\ UNCHANGED <<hierarchy, builder_vars, cycles, rerun_cycles, symbol_vars,
                   rust_vars>>

\* render_html(graph, out_path)
RenderHtml ==
    /\ pc = "analysed"
    /\ pc' = "rendered"
    /\ UNCHANGED <<hierarchy, builder_vars, aux_vars>>

NextRun ==
    \/ StartMultiModule
    \/ BuildModule
    \/ ComputeModuleImports
    \/ MergeJavapImports
    \/ RecomputeModuleImports
    \/ NextExtractor
    \/ SymbolsPassA
    \/ ExtractorsEnd
    \/ FindCycles
    \/ RenderHtml

SpecRun == InitRun /\ [][NextRun]_vars

---------------------------------------------------------------------------
(* Vocabulary of the properties *)

Keys == DOMAIN hierarchy
ChildrenOf(n) == Range(hierarchy[n].children)
ImportsTo(n) == Range(hierarchy[n].imports_to)
ImportsFrom(n) == Range(hierarchy[n].imports_from)
IsInternal(n) == hierarchy[n].children # <<>>

RECURSIVE KidsClosure(_, _)
\* the nodes reachable from the set S along the children lists kids
KidsClosure(kids, S) ==
    LET T == S \cup UNION {Range(kids[x]) : x \in S \cap DOMAIN kids}
    IN  IF T = S THEN S ELSE KidsClosure(kids, T)

\* the nodes reachable from n by one or more children steps
Descendants(n) == KidsClosure(GraphKids(hierarchy), ChildrenOf(n))

\* the raw edges of a node: those recorded on it by a front-end
RawTo(n) == {e[2] : e \in {x \in raw_edges : x[1] = n}}
RawFrom(n) == {e[1] : e \in {x \in raw_edges : x[2] = n}}

\* node_id followed by the path separator
WithSeparator(n) == n \o <<".">>

\* an aggregation pass has completed
Aggregated == pc \in {"built", "merged"}

---------------------------------------------------------------------------
(* Edge aggregation *)

\* C1: after aggregation the imports_to of every node with children is the
\* union of its own raw imports_to and the aggregated imports_to of all its
\* descendants, minus exactly the targets inside its own subtree.
C1_ImportsToIsSubtreeBoundary ==
    Aggregated =>
        \A n \in Keys : IsInternal(n) =>
            ImportsTo(n) =
                (RawTo(n) \cup UNION {ImportsTo(d) : d \in Descendants(n) \cap Keys})
                    \ ({n} \cup Descendants(n))

\* C2: after aggregation no node lists its own identifier in its imports_to
\* or its imports_from, edges between a node and its descendants included.
C2_NoSelfReference ==
    Aggregated =>
        \A n \in Keys : n \notin ImportsTo(n) /\ n \notin ImportsFrom(n)

\* C4: an internal node keeps in its aggregated imports_to every target of
\* its own or of its children that does not start with its identifier
\* followed by ".", a target that only shares a textual prefix included.
C4_SeparatorContainment ==
    Aggregated =>
        \A n \in Keys : IsInternal(n) =>
            \A imp \in RawTo(n) \cup UNION {ImportsTo(c) : c \in ChildrenOf(n) \cap Keys} :
                (imp # n /\ ~StartsWith(imp, WithSeparator(n))) => imp \in ImportsTo(n)

\* C5: after aggregation the imports_from of every node with children is the
\* union of its own and its children's imports_from without the sources that
\* start with its identifier followed by ".".
C5_ImportsFromFiltered ==
    Aggregated =>
        \A n \in Keys : IsInternal(n) =>
            ImportsFrom(n) =
                {src \in RawFrom(n) \cup
                         UNION {ImportsFrom(c) : c \in ChildrenOf(n) \cap Keys} :
                    ~StartsWith(src, WithSeparator(n))}

\* the result of the initial aggregation on the raw edges recorded so far
FreshAggregation ==
    IF AllPackages(raw_edges, fs_packages) = {} THEN EmptyGraph
    ELSE LET raw == RawHierarchy(raw_edges, fs_packages)
             walk == PostOrderLoop(RawKids(raw, FALSE),
                                   <<RootId(AllPackages(raw_edges, fs_packages))>>,
                                   {}, <<>>, MaxIter)
         IN  WriteHierarchy(EmptyGraph, AggregateInOrder(raw, walk.order))

\* C3: the aggregated sets are a function of the current raw edges and the
\* current tree shape only: after the javap merge and its re-aggregation the
\* hierarchy is what the initial aggregation computes from the same raw
\* edges and the same packages.
C3_ReaggregationIsStateless ==
    pc = "merged" => hierarchy = FreshAggregation

---------------------------------------------------------------------------
(* Tree building *)

InputIds == AllPackages(edges, fs_packages)

\* a segment-wise prefix
SegPrefix(a, b) == Len(a) <= Len(b) /\ SubSeq(b, 1, Len(a)) = a

\* C6: after tree building the computed root is a key, and for every input
\* identifier every dotted prefix from the depth of the root down to the
\* identifier is a key, each below that depth a child of the next shorter
\* prefix.
C6_AncestorChainExists ==
    (pc \in {"built", "merged"} /\ InputIds # {}) =>
        LET root == root_node_ids[1]
            depth == Len(Split(root))
        IN  /\ root \in Keys
            /\ \A x \in InputIds : \A i \in depth..Len(Split(x)) :
                   /\ Join(Take(Split(x), i)) \in Keys
                   /\ i > depth =>
                        /\ Join(Take(Split(x), i - 1)) \in Keys
                        /\ Join(Take(Split(x), i)) \in
                               ChildrenOf(Join(Take(Split(x), i - 1)))

\* a build whose computed root and an intermediate package are not input
\* identifiers
C6_Witness ==
    /\ pc = "built"
    /\ InputIds # {}
    /\ root_node_ids[1] \notin InputIds
    /\ \E k \in Keys : k \notin InputIds /\ k # root_node_ids[1]

\* the identifier without its last segment
PrefixParent(c) == Join(Take(Split(c), Len(Split(c)) - 1))

\* C7: the children relation is a forest in every state: no node is its own
\* descendant, and every node that is not a root is listed in the children
\* of exactly one node, its dotted-prefix parent.
C7_ChildrenFormForest ==
    /\ \A n \in Keys : n \notin Descendants(n)
    /\ \A c \in Keys \ Range(root_node_ids) :
           {n \in Keys : c \in ChildrenOf(n)} = {PrefixParent(c)}

\* C8: the root chosen by the builder is the longest common sequence of
\* leading segments of the input identifiers, hence a segment-wise prefix of
\* each of them, also when they share no leading segment.
C8_RootIsCommonPrefix ==
    (pc # "start" /\ InputIds # {}) =>
        /\ Split(root_node_ids[1]) = CommonSegments(InputIds)
        /\ \A x \in InputIds : SegPrefix(Split(root_node_ids[1]), Split(x))

\* C9: no node is recorded as its own child, the module wrapper nodes
\* included.
C9_NoSelfChild ==
    \A n \in Keys : n \notin ChildrenOf(n)

---------------------------------------------------------------------------
(* Termination of the traversal *)

\* a node that is its own descendant along the children lists kids: it is
\* never marked visited, so once it is on the stack the stack never empties
OnChildCycle(kids, n) ==
    n \in DOMAIN kids /\ n \in KidsClosure(kids, Range(kids[n]))

\* a build is cut off after MaxIter rounds only when its root reaches such a
\* node, that is, when the while loop cannot end
HungBuildCannotEnd ==
    (pc = "hung" /\ hierarchy = EmptyGraph) =>
        LET kids == RawKids(RawHierarchy(edges, fs_packages), FALSE)
            root == RootId(InputIds)
        IN  \E n \in KidsClosure(kids, {root}) : OnChildCycle(kids, n)

\* C10: the bottom-up traversal ends on every input: no build and no merge
\* is left running its while loop.
C10_TraversalEnds ==
    pc # "hung"

---------------------------------------------------------------------------
(* Cycle detection *)

\* find_cycles has returned
Analysed == pc \in {"analysed", "reanalysed"}

\* the imports_to lists restricted to the keys of the hierarchy
ImportKids ==
    [k \in Keys |-> SelectSeq(hierarchy[k].imports_to, LAMBDA w : w \in Keys)]

\* the nodes reached from n along one or more imports_to edges between keys
ReachFrom(n) == KidsClosure(ImportKids, Range(ImportKids[n]))

\* the other nodes that reach n and are reached from n
CycleMates(n) == {m \in Keys \ {n} : m \in ReachFrom(n) /\ n \in ReachFrom(m)}

\* the members of the returned groups
Reported == UNION {Range(cycles[i]) : i \in 1..Len(cycles)}

\* C11: every returned group has two members or more, all of them keys and
\* each reachable from each other along imports_to edges between keys; a node
\* that shares a cycle with no other node (on no cycle at all, or only on a
\* self-edge) is in no group.
C11_GroupsAreCycles ==
    Analysed =>
        /\ \A i \in 1..Len(cycles) :
               /\ Cardinality(Range(cycles[i])) >= 2
               /\ Range(cycles[i]) \subseteq Keys
               /\ \A a, b \in Range(cycles[i]) : a # b => b \in ReachFrom(a)
        /\ \A n \in Keys : CycleMates(n) = {} => n \notin Reported

\* a run that reports a group while one node has only a self-edge and another
\* lies on no cycle
C11_Witness ==
    /\ pc = "analysed"
    /\ cycles # <<>>
    /\ \E n \in Keys \ Reported : n \in Range(ImportKids[n])
    /\ \E n \in Keys \ Reported : n \notin ReachFrom(n)

\* C12: the returned groups are exactly the strongly connected components
\* with two members or more: each such component is one group, reported
\* once, without a repeated member, and nothing else is returned.
C12_GroupsAreTheComponents ==
    Analysed =>
        /\ {Range(cycles[i]) : i \in 1..Len(cycles)} =
               {CycleMates(n) \cup {n} : n \in {k \in Keys : CycleMates(k) # {}}}
        /\ \A i, j \in 1..Len(cycles) :
               i # j => Range(cycles[i]) \cap Range(cycles[j]) = {}
        /\ \A i \in 1..Len(cycles) : Len(cycles[i]) = Cardinality(Range(cycles[i]))

\* a disconnected graph with two components of two nodes each
C12_Witness ==
    /\ pc = "analysed"
    /\ Len(cycles) = 2
    /\ \A a \in Range(cycles[1]) : \A b \in Range(cycles[2]) :
           b \notin ReachFrom(a) /\ a \notin ReachFrom(b)

\* the hierarchy without the imports_to entries that are not keys
WithoutUnknownTargets == [k \in Keys |-> [hierarchy[k] EXCEPT !.imports_to = ImportKids[k]]]

\* C13: an imports_to target that is not a key is skipped: it is never pushed
\* on the stack, never given an index or a lowlink, is in no returned group,
\* and the result is the result for the graph without such entries.
C13_UnknownTargetSkipped ==
    Analysed =>
        /\ tarjan.pushed \subseteq Keys
        /\ DOMAIN tarjan.index \subseteq Keys
        /\ DOMAIN tarjan.lowlink \subseteq Keys
        /\ Reported \subseteq Keys
        /\ cycles = FindCyclesRun(WithoutUnknownTargets, key_order).sccs

\* a run on a graph where a member of a reported group imports an unknown id
C13_Witness ==
    /\ pc = "analysed"
    /\ \E n \in Reported : \E w \in Range(hierarchy[n].imports_to) : w \notin Keys

---------------------------------------------------------------------------
(* Cross-root projection *)

Roots == Range(root_node_ids)

\* the nodes below a root in the tree, the other roots excluded
OwnedBy(r) == Descendants(r) \ Roots

\* the module-level imports have been derived
Projected == pc \in {"built", "done"} /\ Len(root_node_ids) > 1

\* the roots other than r that own the far end of an entry of a node of r
ProjectedTo(r) ==
    {o \in Roots \ {r} :
        \E n \in OwnedBy(r) \cap Keys : \E t \in ImportsTo(n) : t \in OwnedBy(o)}

ProjectedFrom(r) ==
    {o \in Roots \ {r} :
        \E n \in OwnedBy(r) \cap Keys : \E f \in ImportsFrom(n) : f \in OwnedBy(o)}

\* C15: in a graph with more than one root, after the projection each root's
\* imports_to (imports_from) is exactly the set of other roots owning the far
\* end of an aggregated imports_to (imports_from) entry of a node owned by
\* the root; a root never lists itself.
C15_RootEdgesAreProjection ==
    Projected =>
        \A r \in Roots \cap Keys :
            /\ ImportsTo(r) = ProjectedTo(r)
            /\ ImportsFrom(r) = ProjectedFrom(r)
            /\ r \notin ImportsTo(r) \cup ImportsFrom(r)

---------------------------------------------------------------------------
(* Symbol merging *)

RECURSIVE FieldMerge(_, _)
\* the merge of two symbols of one name, field by field: a value the new
\* pass leaves empty keeps the earlier value; children are merged by name
FieldMerge(old, new) ==
    [kind |-> new.kind,
     visibility |-> new.visibility,
     line |-> IF new.line = NoLine THEN old.line ELSE new.line,
     calls |-> IF new.calls = <<>> THEN old.calls ELSE new.calls,
     inherits |-> IF new.inherits = <<>> THEN old.inherits ELSE new.inherits,
     children |->
        [m \in DOMAIN old.children \cup DOMAIN new.children |->
            IF m \notin DOMAIN old.children THEN new.children[m]
            ELSE IF m \notin DOMAIN new.children THEN old.children[m]
            ELSE FieldMerge(old.children[m], new.children[m])]]

\* the symbol dict of one node after a field-by-field merge of a new mapping
FieldMergeDict(old, new) ==
    [c \in DOMAIN old \cup DOMAIN new |->
        IF c \notin DOMAIN old THEN new[c]
        ELSE IF c \notin DOMAIN new THEN old[c]
        ELSE FieldMerge(old[c], new[c])]

\* C16: a pass that merges a symbol mapping into the nodes merges field by
\* field: a symbol name not yet on the node is added whole; for a name already
\* there an empty field of the new pass keeps the earlier value and children
\* are merged by name.
C16_MergeIsFieldByField ==
    [][applied' = Append(applied, "b") =>
          \A k \in DOMAIN batch_b.symbols_by_package :
              symbols'[k] =
                  FieldMergeDict(IF k \in DOMAIN symbols THEN symbols[k] ELSE <<>>,
                                 batch_b.symbols_by_package[k])]_vars

\* the fields of class A of p.f and of its method m that a pass may set
SymbolFields == {"line", "inherits", "m.line", "m.calls"}

\* the value a field has when it is not set
FieldEmpty(f) == IF f \in {"line", "m.line"} THEN NoLine ELSE <<>>

\* the value of a field of class A in a symbol dict of p.f
FieldIn(syms, f) ==
    IF "A" \notin DOMAIN syms THEN FieldEmpty(f)
    ELSE IF f = "line" THEN syms["A"].line
    ELSE IF f = "inherits" THEN syms["A"].inherits
    ELSE IF "m" \notin DOMAIN syms["A"].children THEN FieldEmpty(f)
    ELSE IF f = "m.line" THEN syms["A"].children["m"].line
    ELSE syms["A"].children["m"].calls

\* what a pass alone leaves on p.f
Alone(batch) ==
    LET syms == MergeMethodCalls(WithBatchNodes(hierarchy, batch.symbols_by_package),
                    UpdateSymbols(<<>>, batch.symbols_by_package), batch.method_calls)
    IN  IF PF \in DOMAIN syms THEN syms[PF] ELSE <<>>

\* the value a pass sets for a field of class A
FieldOf(batch, f) == FieldIn(Alone(batch), f)

\* the two passes both report class A and set no field in common
DisjointPasses ==
    /\ "A" \in DOMAIN Alone(batch_a) /\ "A" \in DOMAIN Alone(batch_b)
    /\ Alone(batch_a)["A"].visibility = Alone(batch_b)["A"].visibility
    /\ \A f \in SymbolFields :
           FieldOf(batch_a, f) = FieldEmpty(f) \/ FieldOf(batch_b, f) = FieldEmpty(f)

\* the symbols left by merging the two passes in the given order
MergedInOrder(first, second) ==
    LET g1 == WithBatchNodes(hierarchy, first.symbols_by_package)
        s1 == MergeMethodCalls(g1, UpdateSymbols(<<>>, first.symbols_by_package),
                               first.method_calls)
        g2 == WithBatchNodes(g1, second.symbols_by_package)
    IN  MergeMethodCalls(g2, UpdateSymbols(s1, second.symbols_by_package),
                         second.method_calls)

\* the pass merged later
LaterPass == IF applied[Len(applied)] = "a" THEN batch_a ELSE batch_b

\* C17: when two passes set disjoint fields of the symbols they share, the
\* symbols are the same whichever pass is merged first; a field both passes
\* set holds the value of the pass merged later.
C17_DisjointPassesCommute ==
    Len(applied) = 2 =>
        /\ DisjointPasses =>
               MergedInOrder(batch_a, batch_b) = MergedInOrder(batch_b, batch_a)
        /\ \A f \in SymbolFields :
               (FieldOf(batch_a, f) # FieldEmpty(f) /\ FieldOf(batch_b, f) # FieldEmpty(f))
                   => FieldIn(symbols[PF], f) = FieldOf(LaterPass, f)

RECURSIVE AllPrivate(_)
\* every symbol of a mapping, and every nested child, is private
AllPrivate(syms) ==
    \A c \in DOMAIN syms :
        syms[c].visibility = "private" /\ AllPrivate(syms[c].children)

\* C18: every symbol, and every nested child symbol, of a node with
\* is_exported = false has the visibility "private".
C18_NonExportedIsPrivate ==
    \A k \in DOMAIN symbols : ~is_exported[k] => AllPrivate(symbols[k])

\* C20: the empty string is never a key of the hierarchy, whatever a pass
\* finds (classes of the default package create no node).
C20_EmptyIdentifierRejected ==
    DefaultPackage \notin DOMAIN hierarchy

---------------------------------------------------------------------------
(* Passes over existing nodes *)

\* every child and import entry of node n before the step is on n after it
KeepsEntries(n) ==
    /\ Range(hierarchy[n].children) \subseteq Range(hierarchy'[n].children)
    /\ Range(hierarchy[n].imports_to) \subseteq Range(hierarchy'[n].imports_to)
    /\ Range(hierarchy[n].imports_from) \subseteq Range(hierarchy'[n].imports_from)

\* C19: a later pass of a run (a per-module build, an edge merge, a
\* re-aggregation) only adds to the nodes that already exist: every child and
\* every imports_to / imports_from entry of a non-root node is still on that
\* node after the pass.
C19_LaterPassOnlyAdds ==
    [][\A n \in (DOMAIN hierarchy \cap DOMAIN hierarchy')
                    \ (Range(root_node_ids) \cup Range(root_node_ids')) :
           KeepsEntries(n)]_vars

---------------------------------------------------------------------------
(* Edge endpoints *)

\* C22: after a build, both endpoints of every raw edge (s, t) with s # t
\* handed to the tree builder are keys of the hierarchy, also when an
\* endpoint was not declared: it becomes a placeholder node.
C22_EdgeEndpointsAreNodes ==
    pc \in {"built", "merged", "done"} =>
        \A e \in edges : e[1] # e[2] => e[1] \in Keys /\ e[2] \in Keys

---------------------------------------------------------------------------
(* Order of a pipeline run *)

\* the facts the extractors merge: the nodes below the roots and the symbols
Facts == <<[k \in DOMAIN hierarchy \ Range(root_node_ids) |-> hierarchy[k]], symbols>>

\* the cross-root projection has run
AfterProjection ==
    pc \in {"built", "merged", "done", "symbols", "extracted", "analysed", "rendered"}

\* the cycles have been computed
AfterCycles == pc \in {"analysed", "rendered"}

\* C23: the events of a run are ordered: the extractors merge their facts,
\* then the cross-root projection runs, then cycle detection once, then
\* rendering; no step merges facts after the projection, and none changes the
\* facts or the cycles after cycle detection.
C23_RunIsOrdered ==
    [][/\ AfterProjection => Facts' = Facts
       /\ AfterCycles => (Facts' = Facts /\ cycles' = cycles)]_vars

\* the half of C23 about cycle detection
CyclesComeLast ==
    [][AfterCycles => (hierarchy' = hierarchy /\ symbols' = symbols /\ cycles' = cycles)]_vars

---------------------------------------------------------------------------
(* Post-order traversal *)

\* the children lists below root r form a tree: no node below r is its own
\* descendant or the child of two nodes
TreeBelow(r) ==
    /\ r \in Keys
    /\ r \notin Descendants(r)
    /\ \A n \in Descendants(r) :
           /\ n \in Keys
           /\ n \notin Descendants(n)
           /\ Cardinality({x \in Keys : n \in ChildrenOf(x)}) = 1

\* the position of a node in the traversal order
PositionOf(n) == CHOOSE i \in 1..Len(order) : order[i] = n

\* a single-root traversal has completed and its order is the last one made
Traversed ==
    pc \in {"built", "merged"} /\ order # <<>> /\ Len(root_node_ids) = 1

\* C24: the traversal from the root of a tree produces an order that holds
\* every node reachable from the root exactly once, each node after all of
\* its children.
C24_PostOrder ==
    (Traversed /\ TreeBelow(root_node_ids[1])) =>
        LET r == root_node_ids[1]
        IN  /\ Range(order) = {r} \cup Descendants(r)
            /\ \A i, j \in 1..Len(order) : order[i] = order[j] => i = j
            /\ \A n \in Range(order) : \A c \in ChildrenOf(n) :
                   PositionOf(c) < PositionOf(n)

\* a tree of depth two with a node of two children has been traversed
C24_Witness ==
    /\ Traversed
    /\ TreeBelow(root_node_ids[1])
    /\ \E n \in Range(order) : Cardinality(ChildrenOf(n)) >= 2
    /\ \E n \in Descendants(root_node_ids[1]) : ChildrenOf(n) # {}

---------------------------------------------------------------------------
(* Writes of nodes that hold symbols *)

\* C25: a hierarchy pass that writes a node which is already a key of the
\* hierarchy leaves the node's symbols as they were, whether the node is
\* written as a package node or as a module wrapper node.
C25_WriteKeepsSymbols ==
    [][\A k \in DOMAIN symbols :
           k \in DOMAIN symbols' /\ symbols'[k] = symbols[k]]_vars

---------------------------------------------------------------------------
(* Edge duality *)

\* the nodes without children
Leaves == {n \in Keys : ~IsInternal(n)}

\* C26: after a build and after every edge merge, for two nodes s and t
\* without children, t is in s.imports_to exactly when s is in
\* t.imports_from, also when the identifier of s is a textual prefix of t.
C26_LeafEdgesAreDual ==
    Aggregated =>
        \A s, t \in Leaves : (t \in ImportsTo(s)) <=> (s \in ImportsFrom(t))

\* the same for leaves of which neither identifier starts with the other
LeafEdgesAreDualApartFromPrefixes ==
    Aggregated =>
        \A s, t \in Leaves :
            (~StartsWith(t, s) /\ ~StartsWith(s, t)) =>
                ((t \in ImportsTo(s)) <=> (s \in ImportsFrom(t)))

---------------------------------------------------------------------------
(* RustModuleHierarchyExtractor on a workspace of one crate *)

MaxUses == 1

CrateName == <<"p">>

\* the module trees rustdoc may describe: a module comes with its parent
CrateModules == {S \in SUBSET {PF, PG, PFX} : PFX \in S => PF \in S}

\* _walk_module: parent -> child entries of the module tree
WalkModule(mods) ==
    [k \in mods \cup {PrefixParent(m) : m \in mods} |->
        [EmptyRaw EXCEPT !.children = {m \in mods : PrefixParent(m) = k}]]

\* _collect_use_edges: for a use item of module_path whose source resolves to
\* source_mod_path, a module of the crate other than module_path
CollectUseEdges(h, uses) ==
    LET kept == {u \in uses : u[2] \in DOMAIN h /\ u[2] # u[1]}
    IN  [k \in DOMAIN h |->
            [h[k] EXCEPT
                !.imports_from = @ \cup {u[2] : u \in {x \in kept : x[1] = k}},
                !.imports_to = @ \cup {u[1] : u \in {x \in kept : x[2] = k}}]]

\* a workspace of one crate: its module tree, its use items, its use lines
InitRust ==
    /\ pc = "crate"
    /\ fs_packages \in CrateModules
    /\ doc_uses \in SubsetsUpTo((fs_packages \cup {CrateName}) \X fs_packages, MaxUses)
    /\ src_uses \in SubsetsUpTo((fs_packages \cup {CrateName}) \X fs_packages, MaxUses)
    /\ edges = {}
    /\ root_node_ids = <<CrateName>>
    /\ hierarchy = EmptyGraph
    /\ order = <<>>
    /\ raw_edges = {}
    /\ module_classes = <<>>
    /\ mod_idx = 0
    /\ AnalysisIdle
    /\ SymbolsIdle

\* _build_crate_hierarchy(doc, crate_name, graph); public is the set of
\* modules rustdoc reports with visibility "public"
BuildCrateHierarchy ==
    /\ pc = "crate"
    /\ \E rev \in BOOLEAN : \E public \in SUBSET fs_packages :
         LET raw == Ensure(CollectUseEdges(WalkModule(fs_packages), doc_uses),
                           CrateName)
             walk == PostOrderLoop(RawKids(raw, rev), <<CrateName>>, {}, <<>>,
                                   MaxIter)
             agg == AggregateInOrder(raw, walk.order)
             below == [k \in DOMAIN agg \ {CrateName} |-> agg[k]]
         IN  /\ order' = walk.order
             /\ raw_edges' = {e \in (DOMAIN raw) \X (DOMAIN raw) :
                                 e[2] \in raw[e[1]].imports_to}
             /\ IF walk.done THEN
                    /\ hierarchy' =
                          PutNode(WriteHierarchy(hierarchy, below), CrateName,
                                  [children |-> Sorted(agg[CrateName].children),
                                   imports_to |-> <<>>, imports_from |-> <<>>])
                    /\ is_exported' =
                          [k \in DOMAIN hierarchy' |->
                              IF k \in fs_packages THEN k \in public ELSE TRUE]
                    /\ symbols' = WithoutSymbols(symbols, CrateName)
                    /\ pc' = "crate_built"
                ELSE
                    /\ UNCHANGED <<hierarchy, is_exported, symbols>>
                    /\ pc' = "hung"
    /\ UNCHANGED <<fs_packages, edges, root_node_ids, module_classes, mod_idx>>
    /\ UNCHANGED <<analysis_vars, batch_a, batch_b, applied, rust_vars>>

\* one iteration of "for node_id in order" of _reaggregate_imports
RustReaggregateNode(g, node_id) ==
    LET node == g[node_id]
    IN  IF node.children # <<>> THEN
            LET kids == {c \in Range(node.children) : c \in DOMAIN g}
                all_to == Range(node.imports_to)
                            \cup UNION {Range(g[c].imports_to) : c \in kids}
                all_from == Range(node.imports_from)
                            \cup UNION {Range(g[c].imports_from) : c \in kids}
            IN  [node EXCEPT
                    !.imports_to =
                        Sorted({imp \in all_to :
                                   ~StartsWith(imp, WithSeparator(node_id))}),
                    !.imports_from = Sorted(all_from)]
        ELSE node

RECURSIVE ReaggregateImports(_, _)
\* the loop "for node_id in order" of _reaggregate_imports
ReaggregateImports(g, ord) ==
    IF ord = <<>> THEN g
    ELSE LET node_id == Head(ord)
         IN  ReaggregateImports(
                 IF node_id \in DOMAIN g
                 THEN [g EXCEPT ![node_id] = RustReaggregateNode(g, node_id)]
                 ELSE g,
                 Tail(ord))

\* _add_source_import_edges(crate_name, src_path, graph)
AddSourceImportEdges ==
    /\ pc = "crate_built"
    /\ LET crate_modules == {k \in DOMAIN hierarchy :
                                k = CrateName \/ StartsWith(k, WithSeparator(CrateName))}
           kept == {u \in src_uses :
                       /\ u[1] \in crate_modules /\ u[2] \in crate_modules
                       /\ u[2] # u[1]
                       /\ ~StartsWith(u[1], WithSeparator(u[2]))
                       /\ ~StartsWith(u[2], WithSeparator(u[1]))}
           merged == [k \in DOMAIN hierarchy |->
                        [hierarchy[k] EXCEPT
                            !.imports_to = Sorted(Range(@) \cup
                                {u[2] : u \in {x \in kept : x[1] = k}}),
                            !.imports_from = Sorted(Range(@) \cup
                                {u[1] : u \in {x \in kept : x[2] = k}})]]
           kids == [k \in DOMAIN merged |->
                      SelectSeq(merged[k].children, LAMBDA c : c \in crate_modules)]
           walk == PostOrderLoop(kids, <<CrateName>>, {}, <<>>, MaxIter)
       IN  IF kept = {} THEN
               /\ hierarchy' = merged
               /\ order' = order
               /\ pc' = "sourced"
           ELSE IF walk.done THEN
               /\ hierarchy' = ReaggregateImports(merged, walk.order)
               /\ order' = walk.order
               /\ pc' = "sourced"
           ELSE
               /\ hierarchy' = merged
               /\ order' = walk.order
               /\ pc' = "hung"
    /\ raw_edges' = raw_edges \cup
           {u \in src_uses : u[2] \in Range(hierarchy'[u[1]].imports_to)}
    /\ UNCHANGED <<fs_packages, edges, root_node_ids, module_classes, mod_idx>>
    /\ UNCHANGED aux_vars

NextRust == BuildCrateHierarchy \/ AddSourceImportEdges

SpecRust == InitRust /\ [][NextRust]_vars

---------------------------------------------------------------------------
(* Direction of the Rust edges *)

\* two modules without children of which neither identifier starts with the
\* other
PlainPair(m, s) ==
    /\ m \in Leaves /\ s \in Leaves
    /\ ~StartsWith(m, s) /\ ~StartsWith(s, m)

\* C27: both Rust edge passes record a use in the same direction: when module
\* M holds a use of an item of module S, be it a use item of the rustdoc JSON
\* or a "use crate::" line of the source, S is in M.imports_to and M is in
\* S.imports_from.
C27_UseEdgesPointAtTheUsedModule ==
    pc = "sourced" =>
        \A u \in doc_uses \cup src_uses :
            PlainPair(u[1], u[2]) =>
                /\ u[2] \in ImportsTo(u[1])
                /\ u[1] \in ImportsFrom(u[2])

\* the half of C27 about the "use crate::" lines
SourceUsesPointAtTheUsedModule ==
    pc = "sourced" =>
        \A u \in src_uses :
            PlainPair(u[1], u[2]) =>
                /\ u[2] \in ImportsTo(u[1])
                /\ u[1] \in ImportsFrom(u[2])

---------------------------------------------------------------------------
(* Orphan nodes *)

\* every root is a key, and every key is a root or below a root
NoOrphans ==
    /\ Range(root_node_ids) \subseteq Keys
    /\ \A k \in Keys :
           k \in Range(root_node_ids)
           \/ \E r \in Range(root_node_ids) \cap Keys : k \in Descendants(r)

\* C28: after the extractors of a run, every id of root_node_ids is a key of
\* the hierarchy and every key is a root or reachable from a root along
\* children, also when a symbol pass created the node.
C28_NoOrphanNodes ==
    (pc = "symbols" /\ Len(applied) = 2) => NoOrphans

\* the same after the hierarchy extractor alone
NoOrphansAfterHierarchy ==
    pc \in {"built", "merged", "done"} => NoOrphans

---------------------------------------------------------------------------
(* The Python extractors in their registered order: the module hierarchy   *)
(* from the module dependencies, then the symbols of every source file     *)

MaxPyImports == 1

\* the package of the project: graph.root_node_id
PyRoot == <<"p">>

PU == <<"p", ".", "_", "f">>
PUX == <<"p", ".", "_", "f", ".", "x">>

\* the modules of the package: p/f.py, p/_f.py or p/_f/x.py
PyModules == {PF, PU, PUX}

\* the symbols _extract_symbols finds in a file: class A, with or without
\* a method m
FileSyms ==
    {("A" :> PlainClass),
     ("A" :> [PlainClass EXCEPT !.children =
                 ("m" :> [kind |-> "method", line |-> NoLine, calls |-> <<>>,
                          inherits |-> <<>>, children |-> <<>>,
                          visibility |-> "public"])])}

RECURSIVE PyWalk(_, _, _, _)
\* for i, _part in enumerate(parts[1:], 1): register current -> child
PyWalk(h, parts, i, current) ==
    IF i >= Len(parts) THEN h
    ELSE LET child_name == Join(Take(parts, i + 1))
         IN  PyWalk(Ensure(AddChild(h, current, child_name), child_name),
                    parts, i + 1, child_name)

RECURSIVE PyRegisterModules(_, _, _)
\* for module_name, info in deps.items(): the parent -> child edges
PyRegisterModules(h, mods, root_id) ==
    IF mods = <<>> THEN h
    ELSE PyRegisterModules(PyWalk(h, Split(Head(mods)), 1, root_id),
                           Tail(mods), root_id)

RECURSIVE PyRecordImports(_, _)
\* for imported in info["imports"]: record the import on both ends
PyRecordImports(h, es) ==
    IF es = {} THEN h
    ELSE LET e == CHOOSE x \in es : TRUE
             h1 == Ensure(h, e[1])
             h2 == [h1 EXCEPT ![e[1]].imports_to = @ \cup {e[2]}]
             h3 == Ensure(h2, e[2])
             h4 == [h3 EXCEPT ![e[2]].imports_from = @ \cup {e[1]}]
         IN  PyRecordImports(h4, es \ {e})

\* is_exported after the write of the hierarchy pass:
\* "existing.is_exported if existing else True"
PyWriteExported(exp, h) ==
    [k \in DOMAIN exp \cup DOMAIN h |-> IF k \in DOMAIN exp THEN exp[k] ELSE TRUE]

\* last_part.startswith("_") for the last dotted segment of a name
IsPrivateName(n) ==
    LET child_parts == Split(n)
        last_part == child_parts[Len(child_parts)]
    IN  StartsWith(last_part, <<"_">>)

\* a Python project: deps as pydeps or the file tree give them, the files
\* that hold symbols, and the names p/__init__.py re-exports from a module
InitPython ==
    /\ pc = "py"
    /\ fs_packages \in SUBSET PyModules
    /\ edges \in SubsetsUpTo({e \in fs_packages \X fs_packages : e[1] # e[2]},
                             MaxPyImports)
    /\ root_node_ids = <<PyRoot>>
    /\ hierarchy = EmptyGraph
    /\ order = <<>>
    /\ raw_edges = {}
    /\ module_classes = <<>>
    /\ mod_idx = 0
    /\ AnalysisIdle
    /\ RustIdle
    /\ symbols = <<>>
    /\ is_exported = <<>>
    /\ \E files \in SUBSET PyModules :
           batch_a \in [files -> FileSyms]
    /\ batch_b \in {<<>>} \cup {("A" :> m) : m \in PyModules}
    /\ applied = <<>>

\* ModuleHierarchyExtractor.extract: _build_hierarchical_data(deps, graph)
BuildPythonHierarchy ==
    /\ pc = "py"
    /\ \E rev \in BOOLEAN :
         LET h0 == (PyRoot :> EmptyRaw)
             raw == PyRecordImports(
                        PyRegisterModules(h0, Sorted(fs_packages), PyRoot), edges)
             walk == PostOrderLoop(RawKids(raw, rev), <<PyRoot>>, {}, <<>>,
                                   MaxIter)
             agg == AggregateInOrder(raw, walk.order)
         IN  /\ order' = walk.order
             /\ raw_edges' = edges
             /\ IF walk.done THEN
                    /\ hierarchy' = WriteHierarchy(hierarchy, agg)
                    /\ is_exported' = PyWriteExported(is_exported, agg)
                    /\ pc' = "py_built"
                ELSE
                    /\ UNCHANGED <<hierarchy, is_exported>>
                    /\ pc' = "hung"
    /\ UNCHANGED <<fs_packages, edges, root_node_ids, module_classes, mod_idx>>
    /\ UNCHANGED <<analysis_vars, symbols, batch_a, batch_b, applied, rust_vars>>

RECURSIVE EnsureParentsExist(_, _, _)
\* _ensure_parents_exist: for i in range(1, len(parts)); st holds
\* graph.hierarchy (h) and the is_exported of its nodes (exp)
EnsureParentsExist(st, parts, i) ==
    IF i >= Len(parts) THEN st
    ELSE LET parent_name == IF i > 1 THEN Join(Take(parts, i)) ELSE root_node_ids[1]
             child_name == Join(Take(parts, i + 1))
             h1 == IF parent_name \notin DOMAIN st.h
                   THEN PutNode(st.h, parent_name, NodeData(EmptyRaw)) ELSE st.h
             e1 == IF parent_name \notin DOMAIN st.h
                   THEN st.exp @@ (parent_name :> TRUE) ELSE st.exp
             h2 == IF child_name \notin DOMAIN h1
                   THEN PutNode(h1, child_name, NodeData(EmptyRaw)) ELSE h1
             e2 == IF child_name \notin DOMAIN h1
                   THEN e1 @@ (child_name :> ~IsPrivateName(child_name)) ELSE e1
             h3 == IF child_name \notin Range(h2[parent_name].children)
                   THEN [h2 EXCEPT ![parent_name].children = Append(@, child_name)]
                   ELSE h2
         IN  EnsureParentsExist([st EXCEPT !.h = h3, !.exp = e2], parts, i + 1)

\* sym.visibility = "private" on every symbol and on its direct children
Downgraded(file_syms) ==
    [n \in DOMAIN file_syms |->
        [file_syms[n] EXCEPT
            !.visibility = "private",
            !.children = [c \in DOMAIN @ |-> [@[c] EXCEPT !.visibility = "private"]]]]

\* the body of "for py_file in src_dir.rglob('*.py')" for a file with symbols
SymbolsOfFile(st, module_name, file_syms) ==
    LET s1 == EnsureParentsExist(st, Split(module_name), 1)
        h1 == IF module_name \notin DOMAIN s1.h
              THEN PutNode(s1.h, module_name, NodeData(EmptyRaw)) ELSE s1.h
        e1 == IF module_name \notin DOMAIN s1.h
              THEN s1.exp @@ (module_name :> TRUE) ELSE s1.exp
        found == IF ~e1[module_name] THEN Downgraded(file_syms) ELSE file_syms
    IN  [h |-> h1, exp |-> e1,
         syms |-> [k \in DOMAIN st.syms \cup {module_name} |->
                      IF k = module_name THEN found ELSE st.syms[k]]]

RECURSIVE SymbolsOfFiles(_, _, _)
\* the first loop of AstSymbolsExtractor.extract, over the files in the
\* order rglob yields them
SymbolsOfFiles(st, files, by_file) ==
    IF files = <<>> THEN st
    ELSE SymbolsOfFiles(SymbolsOfFile(st, Head(files), by_file[Head(files)]),
                        Tail(files), by_file)

\* _extract_reexports for p/__init__.py: import_map gives, for every name of
\* __all__ imported from a submodule, the submodule
ExtractReexports(st, package_name, import_map) ==
    IF import_map = <<>> THEN st
    ELSE
        LET h1 == IF package_name \notin DOMAIN st.h
                  THEN PutNode(st.h, package_name, NodeData(EmptyRaw)) ELSE st.h
            e1 == IF package_name \notin DOMAIN st.h
                  THEN st.exp @@ (package_name :> TRUE) ELSE st.exp
            own == IF package_name \in DOMAIN st.syms THEN st.syms[package_name]
                   ELSE <<>>
            found == {n \in DOMAIN import_map :
                         /\ import_map[n] \in DOMAIN st.h
                         /\ import_map[n] \in DOMAIN st.syms
                         /\ n \in DOMAIN st.syms[import_map[n]]}
            reexport(n) ==
                ("origin" :> import_map[n])
                    @@ [st.syms[import_map[n]][n] EXCEPT !.visibility = "public"]
            added == [n \in DOMAIN own \cup found |->
                         IF n \in found THEN reexport(n) ELSE own[n]]
        IN  [h |-> h1, exp |-> e1,
             syms |-> [k \in DOMAIN st.syms \cup {package_name} |->
                          IF k = package_name THEN added ELSE st.syms[k]]]

\* the orders in which a directory walk may yield the files
FileOrders(files) ==
    {s \in UNION {[1..Cardinality(files) -> files]} :
        \A i, j \in DOMAIN s : i # j => s[i] # s[j]}

\* AstSymbolsExtractor.extract
PythonSymbols ==
    /\ pc = "py_built"
    /\ \E files \in FileOrders(DOMAIN batch_a) :
         LET st0 == [h |-> hierarchy, exp |-> is_exported, syms |-> symbols]
             st1 == SymbolsOfFiles(st0, files, batch_a)
             st2 == ExtractReexports(st1, PyRoot, batch_b)
         IN  /\ hierarchy' = st2.h
             /\ is_exported' = st2.exp
             /\ symbols' = st2.syms
    /\ pc' = "py_done"
    /\ applied' = <<"a">>
    /\ UNCHANGED <<builder_vars, analysis_vars, batch_a, batch_b, rust_vars>>

NextPython ==
    \/ BuildPythonHierarchy
    \/ PythonSymbols

SpecPython == InitPython /\ [][NextPython]_vars

\* the names whose last dotted segment starts with "_"
PrivateNames == {n \in Keys : IsPrivateName(n)}

\* C29: after the hierarchy pass and the symbol pass, in this order, every
\* node whose last dotted segment starts with "_" has is_exported = false,
\* whichever pass created the node.
C29_PrivateNamesAreNotExported ==
    pc = "py_done" => \A n \in PrivateNames : ~is_exported[n]

\* what the symbol pass does ensure: a private name it creates itself is not
\* exported, and it leaves the is_exported of an existing node as it found it
SymbolPassKeepsExported ==
    [][pc = "py_built" =>
          /\ \A n \in DOMAIN is_exported : is_exported'[n] = is_exported[n]
          /\ \A n \in DOMAIN is_exported' \ DOMAIN is_exported :
                 IsPrivateName(n) => ~is_exported'[n]]_vars

\* every node the hierarchy pass writes is exported
HierarchyPassExportsAll ==
    pc = "py_built" => \A n \in Keys : is_exported[n]

---------------------------------------------------------------------------
(* Duality of the root-level edges *)

\* the two directions of the edges between distinct roots agree
RootEdgesAreDual ==
    \A r1, r2 \in Roots \cap Keys :
        r1 # r2 => (r2 \in ImportsTo(r1) <=> r1 \in ImportsFrom(r2))

\* C30: in a graph with more than one root, after the initial projection and
\* after the recomputation that follows an edge merge, r2 is in
\* r1.imports_to exactly when r1 is in r2.imports_from, for any two distinct
\* roots, also when a package is contained in more than one module.
C30_RootEdgesAreDual ==
    Projected => RootEdgesAreDual

\* no package has classes in two modules
NoSharedPackage ==
    \A i, j \in 1..Len(module_classes) :
        i # j => module_classes[i].pkgs \cap module_classes[j].pkgs = {}

\* no module is named like a package or a prefix of a package
NoModuleNamedLikePackage ==
    \A i \in 1..Len(module_classes) : module_classes[i].name \notin Keys \ Roots

\* the duality for projects whose modules hold disjoint packages and whose
\* module names are no package names
RootEdgesAreDualWhenDisjoint ==
    (Projected /\ NoSharedPackage /\ Q \notin fs_packages) => RootEdgesAreDual

====
